---- MODULE Spec2Model ----
(***************************************************************************)
(* Framed native-messaging protocol of the universal bookmark manager.     *)
(*                                                                         *)
(*   host side   packages/native-messaging/src/host.ts                     *)
(*               (stream assembler, command dispatcher, frame writer)      *)
(*   client side packages/extension/src/background/native-messaging.ts     *)
(*               (request correlator, connection manager)                  *)
(*                                                                         *)
(* The two processes are modelled by two specifications, SpecHost and      *)
(* SpecClient, over disjoint groups of variables.                          *)
(***************************************************************************)
EXTENDS Integers, Sequences, FiniteSets, TLC

(***************************************************************************)
(* Bounds of the model.                                                    *)
(***************************************************************************)
\* frames written to the host's stdin in one run
MaxFrames == 2
\* largest chunk the pipe delivers short of "everything that is left"
MaxChunk == 6
\* sendMessage calls made on the client in one run
MaxCalls == 2
\* distinct strings generateRequestId can return in one run
MaxIds == 2
\* addPendingChange calls made in one run, each with a change of its own
MaxChanges == 2

(***************************************************************************)
(* JSON texts, as the UTF-8 bytes that travel in a frame's payload.        *)
(***************************************************************************)
\* {"command":"ping","requestId":"a"}
TextPing ==
  <<123, 34, 99, 111, 109, 109, 97, 110, 100, 34, 58, 34, 112, 105, 110, 103,
    34, 44, 34, 114, 101, 113, 117, 101, 115, 116, 73, 100, 34, 58, 34, 97,
    34, 125>>
\* {"command":"extractBookmarks","requestId":"b"}
TextExtract ==
  <<123, 34, 99, 111, 109, 109, 97, 110, 100, 34, 58, 34, 101, 120, 116, 114,
    97, 99, 116, 66, 111, 111, 107, 109, 97, 114, 107, 115, 34, 44, 34, 114,
    101, 113, 117, 101, 115, 116, 73, 100, 34, 58, 34, 98, 34, 125>>
\* {"command":"extractBookmarks","data":{"browser":"Opera"},"requestId":"c"}
TextExtractOpera ==
  <<123, 34, 99, 111, 109, 109, 97, 110, 100, 34, 58, 34, 101, 120, 116,
    114, 97, 99, 116, 66, 111, 111, 107, 109, 97, 114, 107, 115, 34, 44, 34,
    100, 97, 116, 97, 34, 58, 123, 34, 98, 114, 111, 119, 115, 101, 114, 34,
    58, 34, 79, 112, 101, 114, 97, 34, 125, 44, 34, 114, 101, 113, 117, 101,
    115, 116, 73, 100, 34, 58, 34, 99, 34, 125>>
\* {"command":"getBookmarkDatabases","requestId":"d"}
TextDatabases ==
  <<123, 34, 99, 111, 109, 109, 97, 110, 100, 34, 58, 34, 103, 101, 116, 66,
    111, 111, 107, 109, 97, 114, 107, 68, 97, 116, 97, 98, 97, 115, 101, 115,
    34, 44, 34, 114, 101, 113, 117, 101, 115, 116, 73, 100, 34, 58, 34, 100,
    34, 125>>
\* {"command":"sync","requestId":"é"}
TextSync ==
  <<123, 34, 99, 111, 109, 109, 97, 110, 100, 34, 58, 34, 115, 121, 110, 99,
    34, 44, 34, 114, 101, 113, 117, 101, 115, 116, 73, 100, 34, 58, 34, 195,
    169, 34, 125>>
\* null
TextNull == <<110, 117, 108, 108>>
\* 7
TextNumber == <<55>>
\* {      (not JSON)
TextBrace == <<123>>
\* the empty payload of a frame whose header declares length 0 (not JSON)
TextEmpty == <<>>

\* payloads that JSON.parse accepts
ValidTexts ==
  {TextPing, TextExtract, TextExtractOpera, TextDatabases, TextSync,
   TextNull, TextNumber}
\* payloads that JSON.parse rejects with a SyntaxError
InvalidTexts == {TextBrace, TextEmpty}
Payloads == ValidTexts \cup InvalidTexts

(***************************************************************************)
(* Decoded JSON values.  A field the object does not have reads as         *)
(* "undefined", as a property read does in JavaScript.                     *)
(***************************************************************************)
Undefined == "undefined"

Obj(command, browser, requestId) ==
  [kind |-> "object", command |-> command, browser |-> browser,
   requestId |-> requestId]
JsonNull == [kind |-> "null", command |-> Undefined, browser |-> Undefined,
             requestId |-> Undefined]
JsonNumber == [kind |-> "number", command |-> Undefined,
               browser |-> Undefined, requestId |-> Undefined]
SyntaxError == [kind |-> "SyntaxError", command |-> Undefined,
                browser |-> Undefined, requestId |-> Undefined]

(***************************************************************************)
(* Responses, and the JSON texts of the responses the host can write.      *)
(***************************************************************************)
\* sendResponse({success: true, data, requestId})
SuccessResponse(data, requestId) ==
  [success |-> TRUE, data |-> data, error |-> Undefined,
   requestId |-> requestId]

\* sendError(error, requestId)
ErrorResponse(error, requestId) ==
  [success |-> FALSE, data |-> Undefined, error |-> error,
   requestId |-> requestId]

\* the catch of the 'data' handler
InvalidFormatResponse == ErrorResponse("Invalid message format", "unknown")

\* {"success":false,"error":"Invalid message format","requestId":"unknown"}
TextInvalidFormat ==
  <<123, 34, 115, 117, 99, 99, 101, 115, 115, 34, 58, 102, 97, 108, 115,
    101, 44, 34, 101, 114, 114, 111, 114, 34, 58, 34, 73, 110, 118, 97, 108,
    105, 100, 32, 109, 101, 115, 115, 97, 103, 101, 32, 102, 111, 114, 109,
    97, 116, 34, 44, 34, 114, 101, 113, 117, 101, 115, 116, 73, 100, 34, 58,
    34, 117, 110, 107, 110, 111, 119, 110, 34, 125>>

\* {"success":true,"data":{"status":"alive","timestamp":1762300800000},"requestId":"a"}
TextAlive ==
  <<123, 34, 115, 117, 99, 99, 101, 115, 115, 34, 58, 116, 114, 117, 101,
    44, 34, 100, 97, 116, 97, 34, 58, 123, 34, 115, 116, 97, 116, 117, 115,
    34, 58, 34, 97, 108, 105, 118, 101, 34, 44, 34, 116, 105, 109, 101, 115,
    116, 97, 109, 112, 34, 58, 49, 55, 54, 50, 51, 48, 48, 56, 48, 48, 48, 48,
    48, 125, 44, 34, 114, 101, 113, 117, 101, 115, 116, 73, 100, 34, 58, 34,
    97, 34, 125>>

\* {"success":true,"data":[],"requestId":"b"}
TextBookmarks ==
  <<123, 34, 115, 117, 99, 99, 101, 115, 115, 34, 58, 116, 114, 117, 101,
    44, 34, 100, 97, 116, 97, 34, 58, 91, 93, 44, 34, 114, 101, 113, 117, 101,
    115, 116, 73, 100, 34, 58, 34, 98, 34, 125>>

\* {"success":false,"error":"extractor failed","requestId":"b"}
TextExtractFailed ==
  <<123, 34, 115, 117, 99, 99, 101, 115, 115, 34, 58, 102, 97, 108, 115,
    101, 44, 34, 101, 114, 114, 111, 114, 34, 58, 34, 101, 120, 116, 114, 97,
    99, 116, 111, 114, 32, 102, 97, 105, 108, 101, 100, 34, 44, 34, 114, 101,
    113, 117, 101, 115, 116, 73, 100, 34, 58, 34, 98, 34, 125>>

\* {"success":false,"error":"Unsupported browser: Opera","requestId":"c"}
TextUnsupported ==
  <<123, 34, 115, 117, 99, 99, 101, 115, 115, 34, 58, 102, 97, 108, 115,
    101, 44, 34, 101, 114, 114, 111, 114, 34, 58, 34, 85, 110, 115, 117, 112,
    112, 111, 114, 116, 101, 100, 32, 98, 114, 111, 119, 115, 101, 114, 58,
    32, 79, 112, 101, 114, 97, 34, 44, 34, 114, 101, 113, 117, 101, 115, 116,
    73, 100, 34, 58, 34, 99, 34, 125>>

\* {"success":true,"data":{"chrome":null,"firefox":null,"safari":null},"requestId":"d"}
TextPaths ==
  <<123, 34, 115, 117, 99, 99, 101, 115, 115, 34, 58, 116, 114, 117, 101,
    44, 34, 100, 97, 116, 97, 34, 58, 123, 34, 99, 104, 114, 111, 109, 101,
    34, 58, 110, 117, 108, 108, 44, 34, 102, 105, 114, 101, 102, 111, 120, 34,
    58, 110, 117, 108, 108, 44, 34, 115, 97, 102, 97, 114, 105, 34, 58, 110,
    117, 108, 108, 125, 44, 34, 114, 101, 113, 117, 101, 115, 116, 73, 100,
    34, 58, 34, 100, 34, 125>>

\* {"success":false,"error":"extractor failed","requestId":"d"}
TextPathsFailed ==
  <<123, 34, 115, 117, 99, 99, 101, 115, 115, 34, 58, 102, 97, 108, 115,
    101, 44, 34, 101, 114, 114, 111, 114, 34, 58, 34, 101, 120, 116, 114, 97,
    99, 116, 111, 114, 32, 102, 97, 105, 108, 101, 100, 34, 44, 34, 114, 101,
    113, 117, 101, 115, 116, 73, 100, 34, 58, 34, 100, 34, 125>>

\* {"success":false,"error":"Unknown command: sync","requestId":"é"}
TextUnknownSync ==
  <<123, 34, 115, 117, 99, 99, 101, 115, 115, 34, 58, 102, 97, 108, 115,
    101, 44, 34, 101, 114, 114, 111, 114, 34, 58, 34, 85, 110, 107, 110, 111,
    119, 110, 32, 99, 111, 109, 109, 97, 110, 100, 58, 32, 115, 121, 110, 99,
    34, 44, 34, 114, 101, 113, 117, 101, 115, 116, 73, 100, 34, 58, 34, 195,
    169, 34, 125>>

\* {"success":false,"error":"Unknown command: undefined"}
TextUnknownUndefined ==
  <<123, 34, 115, 117, 99, 99, 101, 115, 115, 34, 58, 102, 97, 108, 115,
    101, 44, 34, 101, 114, 114, 111, 114, 34, 58, 34, 85, 110, 107, 110, 111,
    119, 110, 32, 99, 111, 109, 109, 97, 110, 100, 58, 32, 117, 110, 100, 101,
    102, 105, 110, 101, 100, 34, 125>>

\* JSON.parse(messageData.toString('utf8')) on the texts of the model
JsonParse(bytes) ==
  CASE bytes = TextPing -> Obj("ping", Undefined, "a")
    [] bytes = TextExtract -> Obj("extractBookmarks", Undefined, "b")
    [] bytes = TextExtractOpera -> Obj("extractBookmarks", "Opera", "c")
    [] bytes = TextDatabases -> Obj("getBookmarkDatabases", Undefined, "d")
    [] bytes = TextSync -> Obj("sync", Undefined, "é")
    [] bytes = TextNull -> JsonNull
    [] bytes = TextNumber -> JsonNumber
    [] bytes = TextInvalidFormat -> InvalidFormatResponse
    [] bytes = TextAlive -> SuccessResponse("alive", "a")
    [] bytes = TextBookmarks -> SuccessResponse("extractBookmarks", "b")
    [] bytes = TextExtractFailed -> ErrorResponse("extractor failed", "b")
    [] bytes = TextUnsupported ->
         ErrorResponse("Unsupported browser: Opera", "c")
    [] bytes = TextPaths -> SuccessResponse("getBookmarkDatabases", "d")
    [] bytes = TextPathsFailed -> ErrorResponse("extractor failed", "d")
    [] bytes = TextUnknownSync -> ErrorResponse("Unknown command: sync", "é")
    [] bytes = TextUnknownUndefined ->
         ErrorResponse("Unknown command: undefined", Undefined)
    [] OTHER -> SyntaxError

(***************************************************************************)
(* Frame codec, reading side.                                              *)
(***************************************************************************)
\* Buffer.writeUInt32LE: the four header bytes of a length
UInt32LE(n) ==
  <<n % 256, (n \div 256) % 256, (n \div 65536) % 256,
    (n \div 16777216) % 256>>

\* Buffer.readUInt32LE(0)
ReadUInt32LE(buf) ==
  buf[1] + 256 * buf[2] + 65536 * buf[3] + 16777216 * buf[4]

\* Buffer.slice(from): the bytes after the first `from`
Slice(buf, from) == SubSeq(buf, from + 1, Len(buf))

\* one well-framed payload as it is written to the host's stdin
Frame(payload) == UInt32LE(Len(payload)) \o payload

RECURSIVE Concat(_)
Concat(seqs) ==
  IF seqs = <<>> THEN <<>> ELSE Head(seqs) \o Concat(Tail(seqs))

\* the byte stream of a sequence of payloads
Stream(payloads) == Concat([i \in 1..Len(payloads) |-> Frame(payloads[i])])

(***************************************************************************)
(* Frame codec, writing side (sendMessage of the host).                    *)
(***************************************************************************)
\* the UTF-16 code units of the strings the host puts in a response
CodeUnits(string) ==
  CASE string = "a" ->
         <<97>>
    [] string = "b" ->
         <<98>>
    [] string = "c" ->
         <<99>>
    [] string = "d" ->
         <<100>>
    [] string = "é" ->
         <<233>>
    [] string = "unknown" ->
         <<117, 110, 107, 110, 111, 119, 110>>
    [] string = "Invalid message format" ->
         <<73, 110, 118, 97, 108, 105, 100, 32, 109, 101, 115, 115, 97, 103,
         101, 32, 102, 111, 114, 109, 97, 116>>
    [] string = "extractor failed" ->
         <<101, 120, 116, 114, 97, 99, 116, 111, 114, 32, 102, 97, 105, 108,
         101, 100>>
    [] string = "Unsupported browser: Opera" ->
         <<85, 110, 115, 117, 112, 112, 111, 114, 116, 101, 100, 32, 98,
         114, 111, 119, 115, 101, 114, 58, 32, 79, 112, 101, 114, 97>>
    [] string = "Unsupported browser: opera" ->
         <<85, 110, 115, 117, 112, 112, 111, 114, 116, 101, 100, 32, 98,
         114, 111, 119, 115, 101, 114, 58, 32, 111, 112, 101, 114, 97>>
    [] string = "Unknown command: sync" ->
         <<85, 110, 107, 110, 111, 119, 110, 32, 99, 111, 109, 109, 97, 110,
         100, 58, 32, 115, 121, 110, 99>>
    [] string = "Unknown command: undefined" ->
         <<85, 110, 107, 110, 111, 119, 110, 32, 99, 111, 109, 109, 97, 110,
         100, 58, 32, 117, 110, 100, 101, 102, 105, 110, 101, 100>>

\* {"success":true
OpenTrue ==
  <<123, 34, 115, 117, 99, 99, 101, 115, 115, 34, 58, 116, 114, 117, 101>>
\* {"success":false
OpenFalse ==
  <<123, 34, 115, 117, 99, 99, 101, 115, 115, 34, 58, 102, 97, 108, 115,
  101>>
\* ,"data":
DataKey ==
  <<44, 34, 100, 97, 116, 97, 34, 58>>
\* ,"error":
ErrorKey ==
  <<44, 34, 101, 114, 114, 111, 114, 34, 58>>
\* ,"requestId":
RequestIdKey ==
  <<44, 34, 114, 101, 113, 117, 101, 115, 116, 73, 100, 34, 58>>

\* JSON.stringify of the `data` of a response: the result of ping (Date.now()
\* read as 1762300800000), the list extractBookmarks returned (empty), the
\* paths getDatabasePath returned (null each)
DataText(data) ==
  CASE data = "alive" ->
         <<123, 34, 115, 116, 97, 116, 117, 115, 34, 58, 34, 97, 108, 105,
         118, 101, 34, 44, 34, 116, 105, 109, 101, 115, 116, 97, 109, 112,
         34, 58, 49, 55, 54, 50, 51, 48, 48, 56, 48, 48, 48, 48, 48, 125>>
    [] data = "extractBookmarks" ->
         <<91, 93>>
    [] data = "getBookmarkDatabases" ->
         <<123, 34, 99, 104, 114, 111, 109, 101, 34, 58, 110, 117, 108, 108,
         44, 34, 102, 105, 114, 101, 102, 111, 120, 34, 58, 110, 117, 108,
         108, 44, 34, 115, 97, 102, 97, 114, 105, 34, 58, 110, 117, 108,
         108, 125>>

\* a JSON string literal; no string of the model has a character to escape
Quote(units) == <<34>> \o units \o <<34>>

\* JSON.stringify(message) for a response object, as UTF-16 code units: the
\* keys in the order of the object literal, a key whose value is undefined
\* left out
JsonStringify(message) ==
  (IF message.success THEN OpenTrue ELSE OpenFalse)
  \o (IF message.data = Undefined THEN <<>>
      ELSE DataKey \o DataText(message.data))
  \o (IF message.error = Undefined THEN <<>>
      ELSE ErrorKey \o Quote(CodeUnits(message.error)))
  \o (IF message.requestId = Undefined THEN <<>>
      ELSE RequestIdKey \o Quote(CodeUnits(message.requestId)))
  \o <<125>>

\* the UTF-8 bytes of one code unit of the Basic Multilingual Plane
Utf8Unit(u) ==
  IF u < 128 THEN <<u>>
  ELSE IF u < 2048 THEN <<192 + (u \div 64), 128 + (u % 64)>>
  ELSE <<224 + (u \div 4096), 128 + ((u \div 64) % 64), 128 + (u % 64)>>

\* the bytes stdout.write(messageStr, 'utf8') writes (a string of ASCII
\* characters is its own encoding)
Utf8Encode(units) ==
  IF \A i \in 1..Len(units) : units[i] < 128 THEN units
  ELSE Concat([i \in 1..Len(units) |-> Utf8Unit(units[i])])

\* messageStr.length: the number of UTF-16 code units
StringLength(units) == Len(units)

\* Buffer.byteLength(messageStr, 'utf8')
ByteLength(units) == Len(Utf8Encode(units))

\* sendMessage(message): the two stdout.write calls, header then payload
HostSendMessage(message) ==
  <<UInt32LE(ByteLength(JsonStringify(message))),
    Utf8Encode(JsonStringify(message))>>

\* the writes of a batch of messages with all headers ahead of the payloads
WritesHeadersFirst(messages) ==
  [j \in 1..Len(messages) |-> HostSendMessage(messages[j])[1]]
  \o [j \in 1..Len(messages) |-> HostSendMessage(messages[j])[2]]

\* the stdout.write calls of consecutive sendMessage calls
Writes(messages) ==
  Concat([j \in 1..Len(messages) |-> HostSendMessage(messages[j])])

(***************************************************************************)
(* State.                                                                  *)
(***************************************************************************)
VARIABLES
  \* ---- host process (host.ts) ----
  frames,           \* payloads the peer writes to the host's stdin, in order
  input,            \* the same as one byte stream
  pos,              \* bytes of input delivered to the 'data' handler so far
  messageBuffer,    \* setupMessageListener: let messageBuffer
  messageLength,    \* setupMessageListener: let messageLength
  expectingLength,  \* setupMessageListener: let expectingLength
  handed,           \* values passed to handleMessage, in call order
  inflight,         \* handleMessage calls suspended at an await
  stdout,           \* response messages written by sendMessage, in order
  respFor,          \* per stdout entry: index in handed it answers, 0 if none
  written,          \* the byte strings of the stdout.write calls, in order
  hostStatus,       \* "running", "exited" (process.exit) or "crashed"
  \* ---- client (native-messaging.ts) ----
  port,             \* this.port: the id of a port, or Null
  messageHandlers,  \* this.messageHandlers: request id -> the call whose
                    \* closure is stored under it, or Null
  calls,            \* per sendMessage call: its promise, id and timeout timer
  livePorts,        \* ports whose channel is open and whose listeners can run
  posted,           \* call -> port its message went out on (Null: none, or
                    \* that port is gone)
  reconnectTimers,  \* delays of the armed setTimeout callbacks of onDisconnect
  disconnectRequested,  \* history: disconnect() has been called
  event,            \* history: "drop" when the last step was a response
                    \* that found no handler, else "other"
  \* ---- sync manager (sync-manager.ts) ----
  storedSyncState,  \* what storage holds under the sync-state key
  syncInProgress,   \* this.syncInProgress
  performs,         \* per caller of performSync: where its call stands
  adds,             \* per change: where its addPendingChange call stands
  processed         \* history: changes processChange has been called on

hostVars ==
  <<frames, input, pos, messageBuffer, messageLength, expectingLength,
    handed, inflight, stdout, respFor, written, hostStatus>>

clientVars ==
  <<port, messageHandlers, calls, livePorts, posted, reconnectTimers,
    disconnectRequested, event>>

syncVars == <<storedSyncState, syncInProgress, performs, adds, processed>>

vars == <<hostVars, clientVars, syncVars>>

(***************************************************************************)
(* Host: stream assembler (setupMessageListener).                          *)
(***************************************************************************)
\* the assembler's three locals and the decode results of this 'data' call
Assembler(buf, len, exp, out) ==
  [buf |-> buf, len |-> len, exp |-> exp, out |-> out]

\* if (expectingLength && messageBuffer.length >= 4) { ... }
ReadLength(s) ==
  IF s.exp /\ Len(s.buf) >= 4
  THEN Assembler(Slice(s.buf, 4), ReadUInt32LE(s.buf), FALSE, s.out)
  ELSE s

\* the test of the second if: a complete message is buffered
MessageComplete(s) == ~s.exp /\ Len(s.buf) >= s.len

\* TakeMessage with the buffer emptied instead of cut after the message
TakeMessageDropRest(s) ==
  Assembler(<<>>, 0, TRUE,
            Append(s.out, JsonParse(SubSeq(s.buf, 1, s.len))))

\* TakeMessage that resynchronises after a decode error by flushing the buffer
TakeMessageFlushOnError(s) ==
  Assembler(IF JsonParse(SubSeq(s.buf, 1, s.len)) = SyntaxError
            THEN <<>> ELSE Slice(s.buf, s.len),
            0, TRUE,
            Append(s.out, JsonParse(SubSeq(s.buf, 1, s.len))))

\* body of the second if, up to JSON.parse: cut the message off the buffer,
\* go back to expecting a length, decode
TakeMessage(s) ==
  Assembler(Slice(s.buf, s.len), 0, TRUE,
            Append(s.out, JsonParse(SubSeq(s.buf, 1, s.len))))

\* the 'data' handler with an `if` in place of the loop: at most one message
\* is taken per call
DrainOnce(s) ==
  LET s1 == ReadLength(s)
  IN IF MessageComplete(s1) THEN TakeMessage(s1) ELSE s1

\* while (true) { ... } of the 'data' handler
RECURSIVE Drain(_)
Drain(s) ==
  LET s1 == ReadLength(s)
  IN IF MessageComplete(s1) THEN Drain(TakeMessage(s1)) ELSE s1

(***************************************************************************)
(* Host: responses and command dispatcher (handleMessage).                 *)
(***************************************************************************)
\* String.prototype.toLowerCase on the browser names of the model
ToLowerCase(name) ==
  CASE name = "Chrome" -> "chrome"
    [] name = "Firefox" -> "firefox"
    [] name = "Safari" -> "safari"
    [] name = "Opera" -> "opera"
    [] OTHER -> name

\* the sources extractBookmarks knows
Browsers == {"chrome", "firefox", "safari"}

\* getBookmarkDatabases awaits the three getDatabasePath calls in this order
NextSource(source) ==
  CASE source = "chrome" -> "firefox"
    [] source = "firefox" -> "safari"
    [] OTHER -> "done"

\* case 'ping' answered with a failure
PingCaseFails(message) ==
  [how |-> "sync",
   response |-> ErrorResponse("extractor failed", message.requestId),
   source |-> Undefined]

\* case 'ping' of handleMessage
PingCase(message) ==
  [how |-> "sync",
   response |-> SuccessResponse("alive", message.requestId),
   source |-> Undefined]

\* default: answered as if the command were ping
DefaultCaseAnswersAlive(message) ==
  [how |-> "sync",
   response |-> SuccessResponse("alive", message.requestId),
   source |-> Undefined]

\* default: of handleMessage, and its catch
DefaultCase(message) ==
  [how |-> "sync",
   response |-> ErrorResponse("Unknown command: " \o message.command,
                              message.requestId),
   source |-> Undefined]

\* extractBookmarks with the lower-cased name in the error message
ExtractBookmarksLowerCased(browser, requestId) ==
  IF ToLowerCase(browser) \in Browsers
  THEN [how |-> "await", response |-> ErrorResponse(Undefined, Undefined),
        source |-> ToLowerCase(browser)]
  ELSE [how |-> "micro",
        response |-> ErrorResponse("Unsupported browser: "
                                     \o ToLowerCase(browser), requestId),
        source |-> Undefined]

\* extractBookmarks(browser) called for the request `requestId`, and the
\* catch of handleMessage when it throws
ExtractBookmarks(browser, requestId) ==
  IF ToLowerCase(browser) \in Browsers
  THEN [how |-> "await", response |-> ErrorResponse(Undefined, Undefined),
        source |-> ToLowerCase(browser)]
  ELSE [how |-> "micro",
        response |-> ErrorResponse("Unsupported browser: " \o browser,
                                   requestId),
        source |-> Undefined]

\* How one handleMessage call proceeds up to its first suspension:
\*   "sync"      it wrote `response` before returning to the 'data' handler
\*   "micro"     it writes `response` in a microtask, after the 'data'
\*               handler has returned (an await on a rejected promise)
\*   "await"     it is suspended on an extractor call for `source`
\*   "unhandled" its promise rejected with nobody to catch it
HandleMessage(message) ==
  LET browser == IF message.browser = Undefined THEN "chrome"
                 ELSE message.browser
      none == ErrorResponse(Undefined, Undefined)
  IN CASE message.kind = "null" ->
            \* message.command throws; in the catch message.requestId throws
            [how |-> "unhandled", response |-> none, source |-> Undefined]
       [] message.kind # "null" /\ message.command = "extractBookmarks" ->
            ExtractBookmarks(browser, message.requestId)
       [] message.kind # "null" /\ message.command = "getBookmarkDatabases" ->
            [how |-> "await", response |-> none, source |-> "chrome"]
       [] message.kind # "null" /\ message.command = "ping" ->
            PingCase(message)
       [] OTHER -> DefaultCase(message)


\* What the handleMessage calls of one 'data' call do, one entry per decoded
\* payload: `idx` is the call's index in handed (0 when JSON.parse threw and
\* the catch answered instead).
Entries(out, base) ==
  [j \in 1..Len(out) |->
     IF out[j] = SyntaxError
     THEN [idx |-> 0, how |-> "sync", response |-> InvalidFormatResponse,
           source |-> Undefined]
     ELSE [idx |-> base + Cardinality({k \in 1..j : out[k] # SyntaxError})]
          @@ HandleMessage(out[j])]

IsSync(e) == e.how = "sync"
IsMicro(e) == e.how = "micro"
IsAwait(e) == e.how = "await"
IsHanded(v) == v # SyntaxError

\* the messages a list of entries writes, and the calls they answer
Responses(es) == [j \in 1..Len(es) |-> es[j].response]
Answered(es) == [j \in 1..Len(es) |-> es[j].idx]

\* The exit of a process whose promise rejection nobody handles: Node >= 15
\* raises it as an uncaught exception once the microtask queue is empty.
AfterData(es) ==
  IF \E j \in 1..Len(es) : es[j].how = "unhandled"
  THEN "crashed" ELSE "running"

\* the sizes of the next chunk when `rest` bytes are still to come
ChunkSizes(rest) ==
  IF rest <= MaxChunk THEN 1..rest ELSE (1..MaxChunk) \cup {rest}

(***************************************************************************)
(* Host actions.                                                           *)
(***************************************************************************)
\* stdin.on('data', ...) with a chunk of n bytes, and the microtasks that
\* run before the next event
Data(n) ==
  /\ hostStatus = "running"
  /\ LET chunk == SubSeq(input, pos + 1, pos + n)
         s == Drain(Assembler(messageBuffer \o chunk, messageLength,
                              expectingLength, <<>>))
         es == Entries(s.out, Len(handed))
         sync == SelectSeq(es, IsSync)
         micro == SelectSeq(es, IsMicro)
         await == {j \in 1..Len(es) : IsAwait(es[j])}
     IN /\ pos' = pos + n
        /\ messageBuffer' = s.buf
        /\ messageLength' = s.len
        /\ expectingLength' = s.exp
        /\ handed' = handed \o SelectSeq(s.out, IsHanded)
        /\ inflight' = inflight @@
             [i \in {es[j].idx : j \in await} |->
                LET j == CHOOSE k \in await : es[k].idx = i
                IN [command |-> s.out[j].command, source |-> es[j].source,
                    requestId |-> s.out[j].requestId]]
        /\ stdout' = stdout \o Responses(sync) \o Responses(micro)
        /\ respFor' = respFor \o Answered(sync) \o Answered(micro)
        /\ written' = written \o Writes(Responses(sync) \o Responses(micro))
        /\ hostStatus' = AfterData(es)
  /\ UNCHANGED <<frames, input>>
  /\ UNCHANGED clientVars
  /\ UNCHANGED syncVars

\* the write that ends a suspended handleMessage call
Finish(i, response) ==
  /\ stdout' = Append(stdout, response)
  /\ respFor' = Append(respFor, i)
  /\ written' = written \o Writes(<<response>>)
  /\ inflight' = [k \in DOMAIN inflight \ {i} |-> inflight[k]]

\* the awaited extractor call of handleMessage call i resolves
ExtractorResolves(i) ==
  /\ hostStatus = "running"
  /\ i \in DOMAIN inflight
  /\ LET call == inflight[i]
     IN IF call.command = "getBookmarkDatabases"
           /\ NextSource(call.source) # "done"
        THEN /\ inflight' = [inflight EXCEPT
                               ![i].source = NextSource(call.source)]
             /\ UNCHANGED <<stdout, respFor, written>>
        \* the command's name stands for the value the extractors returned
        ELSE Finish(i, SuccessResponse(call.command, call.requestId))
  /\ UNCHANGED <<frames, input, pos, messageBuffer, messageLength,
                 expectingLength, handed, hostStatus>>
  /\ UNCHANGED clientVars
  /\ UNCHANGED syncVars

\* the awaited extractor call of handleMessage call i rejects
ExtractorRejects(i) ==
  /\ hostStatus = "running"
  /\ i \in DOMAIN inflight
  /\ Finish(i, ErrorResponse("extractor failed", inflight[i].requestId))
  /\ UNCHANGED <<frames, input, pos, messageBuffer, messageLength,
                 expectingLength, handed, hostStatus>>
  /\ UNCHANGED clientVars
  /\ UNCHANGED syncVars

\* what an awaited extractor call can do (extractBookmarks, getDatabasePath)
ExtractorOutcomes == {"resolves", "rejects"}

\* the continuation of handleMessage call i after its await
ExtractorSettles(i, outcome) ==
  IF outcome = "resolves" THEN ExtractorResolves(i) ELSE ExtractorRejects(i)

\* stdin.on('end', ...): process.exit(0)
End ==
  /\ hostStatus = "running"
  /\ hostStatus' = "exited"
  /\ UNCHANGED <<frames, input, pos, messageBuffer, messageLength,
                 expectingLength, handed, inflight, stdout, respFor,
                 written>>
  /\ UNCHANGED clientVars
  /\ UNCHANGED syncVars

\* sequences over S of length at most n
SeqUpTo(S, n) == UNION {[1..k -> S] : k \in 0..n}

(***************************************************************************)
(* Host: reference framing, computed from the payloads and not from the    *)
(* assembler.                                                              *)
(***************************************************************************)
\* offset in input just after frame k
RECURSIVE FrameEnd(_)
FrameEnd(k) == IF k = 0 THEN 0 ELSE FrameEnd(k - 1) + 4 + Len(frames[k])

\* number of frames wholly contained in the first p bytes of input
Complete(p) ==
  CHOOSE k \in 0..Len(frames) :
    /\ FrameEnd(k) <= p
    /\ k < Len(frames) => FrameEnd(k + 1) > p

IsValidText(t) == t \in ValidTexts
IsInvalidText(t) == t \in InvalidTexts

\* the messages of the valid payloads among the first k frames
Messages(k) ==
  LET valid == SelectSeq(SubSeq(frames, 1, k), IsValidText)
  IN [i \in 1..Len(valid) |-> JsonParse(valid[i])]

\* how many entries of a sequence satisfy being equal to v
Count(seq, v) == Cardinality({i \in 1..Len(seq) : seq[i] = v})

\* the cases of the switch of handleMessage
Commands == {"extractBookmarks", "getBookmarkDatabases", "ping"}

\* the assembler stands where the reference framing puts it: every frame
\* completed so far was cut off the buffer and every valid one handed on
AssemblerInStep ==
  LET k == Complete(pos)
      part == pos - FrameEnd(k)
  IN /\ handed = Messages(k)
     /\ IF part < 4
        THEN /\ expectingLength
             /\ messageBuffer = SubSeq(input, FrameEnd(k) + 1, pos)
        ELSE /\ ~expectingLength
             /\ messageLength = Len(frames[k + 1])
             /\ messageBuffer = SubSeq(input, FrameEnd(k) + 5, pos)

\* handleMessage call i is suspended on an extractor and has written
\* nothing, or it is over and has written one response
InFlightOrAnswered(i) ==
  \/ i \in DOMAIN inflight /\ Count(respFor, i) = 0
  \/ i \notin DOMAIN inflight /\ Count(respFor, i) = 1

(***************************************************************************)
(* Claims about the host.                                                  *)
(***************************************************************************)
\* C1  Chunk-invariance: when every frame written to stdin carries valid
\* JSON, then after any number of 'data' calls, whatever the chunk sizes,
\* the values handed to handleMessage are exactly the messages of the
\* frames completed by the bytes delivered so far, in order.
C1_ChunkInvariance ==
  (\A i \in 1..Len(frames) : frames[i] \in ValidTexts)
    => handed = Messages(Complete(pos))

\* C1 witness: two valid frames, the first handed, and a chunk boundary in
\* the middle of the second frame's header.
C1_Witness ==
  /\ Len(frames) = 2
  /\ \A i \in 1..2 : frames[i] \in ValidTexts
  /\ Len(handed) = 1
  /\ expectingLength /\ Len(messageBuffer) = 2

\* C5  One response per request: once the host has stopped on the end of
\* stdin, every request handed to handleMessage has got exactly one
\* response frame.
C5_OneResponsePerRequest ==
  hostStatus = "exited" =>
    \A i \in 1..Len(handed) :
      handed[i].kind = "object" => Count(respFor, i) = 1

\* C6  No error escapes: the host never ends on an uncaught exception or
\* an unhandled promise rejection.
C6_NoErrorEscapes == hostStatus # "crashed"

\* C7  Resynchronisation: when a completed frame carried a payload that is
\* not JSON, the assembler stands exactly where the reference framing puts
\* it (header and declared length consumed, nothing more), it has written
\* one 'Invalid message format' response tagged "unknown" per such frame,
\* and the valid frames, those after the bad one included, were all handed
\* to handleMessage.
C7_Resynchronisation ==
  LET k == Complete(pos)
      part == pos - FrameEnd(k)
  IN (\E i \in 1..k : frames[i] \in InvalidTexts) =>
       /\ handed = Messages(k)
       /\ Count(stdout, InvalidFormatResponse)
            = Len(SelectSeq(SubSeq(frames, 1, k), IsInvalidText))
       /\ \A j \in 1..Len(stdout) :
            stdout[j] = InvalidFormatResponse <=> respFor[j] = 0
       /\ IF part < 4
          THEN /\ expectingLength
               /\ messageBuffer = SubSeq(input, FrameEnd(k) + 1, pos)
          ELSE /\ ~expectingLength
               /\ messageLength = Len(frames[k + 1])
               /\ messageBuffer = SubSeq(input, FrameEnd(k) + 5, pos)

\* C7 witness: an invalid frame followed, in the same stream, by a valid
\* one that was decoded and handed on.
C7_Witness ==
  /\ Len(frames) = 2
  /\ frames[1] \in InvalidTexts
  /\ frames[2] = TextPing
  /\ handed = <<JsonParse(TextPing)>>
  /\ stdout = <<InvalidFormatResponse, SuccessResponse("alive", "a")>>

\* C11  Frame integrity on output: the stdout.write calls come in pairs, one
\* pair per response in the order the responses were sent; the first of a
\* pair is a 4-byte header and the second is the complete payload of the
\* same response, of exactly the length the header declares.
C11_FrameIntegrity ==
  /\ Len(written) = 2 * Len(stdout)
  /\ \A k \in 1..Len(stdout) :
       /\ Len(written[2 * k - 1]) = 4
       /\ ReadUInt32LE(written[2 * k - 1]) = Len(written[2 * k])
       /\ written[2 * k] = Utf8Encode(JsonStringify(stdout[k]))

\* C11 witness: two handlers were in flight together and finished in the
\* reverse of the order of their requests.
C11_Witness ==
  /\ Len(handed) = 2
  /\ respFor = <<2, 1>>
  /\ Len(written) = 4

\* C12  requestId echo: every response written carries a requestId; it is
\* "unknown" when the response answers a payload that did not parse, and
\* otherwise the requestId of the message the response answers.
C12_RequestIdEcho ==
  \A j \in 1..Len(stdout) :
    /\ stdout[j].requestId # Undefined
    /\ IF respFor[j] = 0
       THEN stdout[j].requestId = "unknown"
       ELSE stdout[j].requestId = handed[respFor[j]].requestId

\* C13  Unknown command: a request whose command is none of ping,
\* extractBookmarks, getBookmarkDatabases has got exactly one response, the
\* failure 'Unknown command: <command>' with the request's requestId; no
\* extractor call was made for it; the assembler stands where the framing
\* puts it and every request awaiting an extractor is still in flight or
\* has been answered once.
C13_UnknownCommand ==
  \A i \in 1..Len(handed) :
    (handed[i].kind = "object" /\ handed[i].command \notin Commands) =>
      /\ i \notin DOMAIN inflight
      /\ Count(respFor, i) = 1
      /\ \A j \in 1..Len(stdout) :
           respFor[j] = i =>
             stdout[j] = ErrorResponse("Unknown command: "
                                         \o handed[i].command,
                                       handed[i].requestId)
      /\ AssemblerInStep
      /\ \A k \in 1..Len(handed) :
           HandleMessage(handed[k]).how = "await" => InFlightOrAnswered(k)

\* C13 witness: the unknown command sync arrived while an extractBookmarks
\* request was in flight; its failure frame is on stdout and the other
\* request is still in flight.
C13_Witness ==
  /\ frames = <<TextExtract, TextSync>>
  /\ DOMAIN inflight = {1}
  /\ stdout = <<ErrorResponse("Unknown command: sync", "é")>>
  /\ respFor = <<2>>
  /\ written[2] = TextUnknownSync

\* C14  Ping: a ping request has got exactly one response, the success
\* response whose data is the liveness record (status 'alive' and a
\* timestamp) with the request's requestId; it never has a failure response,
\* no extractor call was made for it, and the requests awaiting an
\* extractor are as they would be without it.
C14_PingAlive ==
  \A i \in 1..Len(handed) :
    (handed[i].kind = "object" /\ handed[i].command = "ping") =>
      /\ i \notin DOMAIN inflight
      /\ Count(respFor, i) = 1
      /\ \A j \in 1..Len(stdout) :
           respFor[j] = i =>
             /\ stdout[j] = SuccessResponse("alive", handed[i].requestId)
             /\ JsonParse(written[2 * j]) = stdout[j]
      /\ \A k \in 1..Len(handed) :
           HandleMessage(handed[k]).how = "await" => InFlightOrAnswered(k)

\* C14 witness: a ping arrived while an extractBookmarks request was in
\* flight; the frame with status 'alive' and a timestamp is on stdout.
C14_Witness ==
  /\ frames = <<TextExtract, TextPing>>
  /\ DOMAIN inflight = {1}
  /\ stdout = <<SuccessResponse("alive", "a")>>
  /\ respFor = <<2>>
  /\ written[2] = TextAlive

\* C15  Unsupported browser: an extractBookmarks request whose data.browser,
\* lower-cased, is none of chrome, firefox, safari has got exactly one
\* response, the failure 'Unsupported browser: <name as given>' with the
\* request's requestId, and no extractor call was made for it.
C15_UnsupportedBrowser ==
  \A i \in 1..Len(handed) :
    (/\ handed[i].kind = "object"
     /\ handed[i].command = "extractBookmarks"
     /\ handed[i].browser # Undefined
     /\ ToLowerCase(handed[i].browser) \notin Browsers) =>
      /\ i \notin DOMAIN inflight
      /\ Count(respFor, i) = 1
      /\ \A j \in 1..Len(stdout) :
           respFor[j] = i =>
             /\ stdout[j] = ErrorResponse("Unsupported browser: "
                                            \o handed[i].browser,
                                          handed[i].requestId)
             /\ JsonParse(written[2 * j]) = stdout[j]

\* C15 witness: extractBookmarks for "Opera" arrived while a supported
\* extraction was in flight; the failure frame naming "Opera" as given is
\* on stdout and only the supported extraction awaits an extractor.
C15_Witness ==
  /\ frames = <<TextExtract, TextExtractOpera>>
  /\ DOMAIN inflight = {1}
  /\ stdout = <<ErrorResponse("Unsupported browser: Opera", "c")>>
  /\ respFor = <<2>>
  /\ written[2] = TextUnsupported

\* C16  Database discovery tolerates failing sources: the response to a
\* getBookmarkDatabases request is never a failure response, whatever the
\* getDatabasePath calls of the three extractors do.
C16_DatabasesFailureNonFatal ==
  \A j \in 1..Len(stdout) :
    (respFor[j] # 0
     /\ handed[respFor[j]].command = "getBookmarkDatabases")
      => stdout[j].success

\* C18  Frame codec round trip: the header and payload sendMessage writes
\* for a message, fed to the length-prefixed assembler, decode to exactly
\* that message and leave the assembler empty and expecting a header; the
\* length the header declares is the number of UTF-8 bytes of the payload.
C18_RoundTrip ==
  \A k \in 1..Len(stdout) :
    LET header == written[2 * k - 1]
        payload == written[2 * k]
        s == Drain(Assembler(header \o payload, 0, TRUE, <<>>))
    IN /\ ReadUInt32LE(header) = Len(payload)
       /\ s.out = <<stdout[k]>>
       /\ s.buf = <<>>
       /\ s.exp

\* C18 witness: a response was written whose JSON text has a character
\* outside ASCII, so that its UTF-8 byte length exceeds its character count.
C18_Witness ==
  \E k \in 1..Len(stdout) :
    /\ stdout[k] = ErrorResponse("Unknown command: sync", "é")
    /\ Len(written[2 * k]) > StringLength(JsonStringify(stdout[k]))
    /\ ReadUInt32LE(written[2 * k - 1]) = Len(TextUnknownSync)

\* C24  The assembler drains before it waits: between 'data' calls the
\* assembler either expects a length and holds fewer than 4 bytes, or
\* expects a payload and holds fewer bytes than the declared length; every
\* frame completed by the bytes delivered so far has been cut off the buffer
\* and, if valid, handed on in arrival order, or else answered with
\* 'Invalid message format'; and the buffer holds exactly the delivered
\* bytes that belong to no completed frame.
C24_DrainsBeforeWaiting ==
  /\ IF expectingLength THEN Len(messageBuffer) < 4
     ELSE Len(messageBuffer) < messageLength
  /\ AssemblerInStep
  /\ Count(stdout, InvalidFormatResponse)
       = Len(SelectSeq(SubSeq(frames, 1, Complete(pos)), IsInvalidText))

\* C24 witness: one 'data' call completed two frames.  The first payload is
\* null, after which the process ends before another 'data' call can run,
\* so the ping of the second frame was handed on by the same call.
C24_Witness ==
  /\ frames = <<TextNull, TextPing>>
  /\ handed = <<JsonNull, JsonParse(TextPing)>>
  /\ stdout = <<SuccessResponse("alive", "a")>>
  /\ messageBuffer = <<>>
  /\ expectingLength


(***************************************************************************)
(* Client: request correlator and connection manager                      *)
(* (NativeMessagingClient).                                                *)
(***************************************************************************)
Null == 0
Calls == 1..MaxCalls
\* the strings generateRequestId can return
ReqIds == {"req_" \o ToString(i) : i \in 1..MaxIds}
\* a port object is named by a number; a number is free again once the
\* port it named is closed and nothing refers to it
PortIds == 1..2

\* NATIVE_MESSAGE_TIMEOUT, ms
NATIVE_MESSAGE_TIMEOUT == 10000
\* the delay of the reconnect setTimeout in the onDisconnect listener, ms
ReconnectDelay == 5000

\* a sendMessage call that has not been made yet
NoCall ==
  [state |-> "unused", requestId |-> Undefined, by |-> "none", value |-> Undefined,
   answers |-> Null, settled |-> 0, timer |-> Null]

\* resolve(value) or reject(error) of call c's promise: a promise keeps its
\* first settlement; `settled` counts the invocations
Settle(cs, c, state, by, value, answers) ==
  [cs EXCEPT ![c] =
     IF @.state = "pending"
     THEN [@ EXCEPT !.state = state, !.by = by, !.value = value,
                    !.answers = answers, !.settled = @ + 1]
     ELSE [@ EXCEPT !.settled = @ + 1]]

\* what a response of the host can carry: as `data` of a success the
\* liveness record of ping ("alive") or some other value ("bookmarks"); as
\* `error` of a failure a message or nothing
ResponseContents(success) ==
  IF success THEN {"alive", "bookmarks"}
  ELSE {"extractor failed", Undefined}

\* the response the host writes to the message of call c; `answers` records
\* which request it was computed for
ResponseTo(c, success, content) ==
  [requestId |-> calls[c].requestId, success |-> success,
   data |-> IF success THEN content ELSE Undefined,
   error |-> IF success THEN Undefined ELSE content,
   answers |-> c]

\* the response the host writes when a payload does not parse
UnknownResponse ==
  [requestId |-> "unknown", success |-> FALSE, data |-> Undefined,
   error |-> "Invalid message format", answers |-> Null]

\* this.messageHandlers.get(id), for any string id
Handler(id) == IF id \in ReqIds THEN messageHandlers[id] ELSE Null

\* the closure sendMessage stores for call c, run on a response: it deletes
\* the entry under its own requestId, then resolves or rejects c
RunHandler(c, response) ==
  /\ messageHandlers' = [messageHandlers EXCEPT ![calls[c].requestId] = Null]
  /\ calls' =
       IF response.success
       THEN Settle(calls, c, "resolved", "response", response.data,
                   response.answers)
       ELSE Settle(calls, c, "rejected", "response",
                   IF response.error = Undefined
                   THEN "Native messaging error" ELSE response.error,
                   response.answers)

\* handleNativeResponse with the table emptied when no handler is found
HandleNativeResponseClearsTable(response) ==
  IF Handler(response.requestId) # Null
  THEN RunHandler(Handler(response.requestId), response)
  ELSE /\ messageHandlers' = [id \in ReqIds |-> Null]
       /\ UNCHANGED calls

\* handleNativeResponse(response)
HandleNativeResponse(response) ==
  IF Handler(response.requestId) # Null
  THEN RunHandler(Handler(response.requestId), response)
  ELSE UNCHANGED <<messageHandlers, calls>>

\* connectToNativeHost(): `outcome` is what browser.runtime.connectNative
\* does: it is missing ("unsupported"), it throws, or it returns a port
ConnectToNativeHost(outcome) ==
  IF outcome = "ok"
  THEN LET p == CHOOSE q \in PortIds :
                  q \notin livePorts /\ \A c \in Calls : posted[c] # q
       IN /\ port' = p
          /\ livePorts' = livePorts \cup {p}
  ELSE UNCHANGED <<port, livePorts>>

ConnectOutcomes == {"ok", "throws", "unsupported"}

(***************************************************************************)
(* Client: the public wrappers extractBookmarks, getBookmarkDatabases and  *)
(* ping.  A wrapper awaits one sendMessage call inside a try; the command  *)
(* it passes has no influence on what the client does with the call, so    *)
(* the wrapper's promise is a function of the state of that call.          *)
(***************************************************************************)
Wrappers == {"extractBookmarks", "getBookmarkDatabases", "ping"}

\* what the catch of a wrapper returns: [], {} or false
WrapperDefault(wrapper) ==
  CASE wrapper = "extractBookmarks" -> "[]"
    [] wrapper = "getBookmarkDatabases" -> "{}"
    [] wrapper = "ping" -> "false"

\* what the try of a wrapper returns for the value sendMessage resolved
\* with: `bookmarks || []`, `databases || {}`,
\* `response && response.status === 'alive'`
WrapperReturn(wrapper, value) ==
  IF wrapper = "ping"
  THEN IF value = Undefined THEN Undefined
       ELSE IF value = "alive" THEN "true" ELSE "false"
  ELSE IF value = Undefined THEN WrapperDefault(wrapper) ELSE value

\* a wrapper whose catch throws the error on
WrapperRethrows(wrapper, call) ==
  CASE call.state = "resolved" ->
         [state |-> "resolved", value |-> WrapperReturn(wrapper, call.value)]
    [] call.state = "rejected" ->
         [state |-> "rejected", value |-> call.value]
    [] OTHER -> [state |-> "pending", value |-> Undefined]

\* the promise a wrapper returned, given the sendMessage call it awaits
Wrapper(wrapper, call) ==
  CASE call.state = "resolved" ->
         [state |-> "resolved", value |-> WrapperReturn(wrapper, call.value)]
    [] call.state = "rejected" ->
         [state |-> "resolved", value |-> WrapperDefault(wrapper)]
    [] OTHER -> [state |-> "pending", value |-> Undefined]

(***************************************************************************)
(* Client actions.                                                         *)
(***************************************************************************)
\* the throw of sendMessage put after the setTimeout call
ThrowNotConnectedArmsTimer(cs, c) ==
  [cs EXCEPT ![c] =
     [@ EXCEPT !.state = "rejected", !.by = "notconnected",
               !.value = "Native messaging host not connected",
               !.settled = 1, !.timer = NATIVE_MESSAGE_TIMEOUT]]

\* if (!this.port) throw new Error('Native messaging host not connected'):
\* the promise of call c, an async function's, is rejected
ThrowNotConnected(cs, c) ==
  [cs EXCEPT ![c] =
     [@ EXCEPT !.state = "rejected", !.by = "notconnected",
               !.value = "Native messaging host not connected",
               !.settled = 1]]

\* sendMessage(command, data) as call c; generateRequestId returns id;
\* postMessage throws or not
SendMessage(c, id, throws) ==
  /\ calls[c].state = "unused"
  /\ \A d \in Calls : d < c => calls[d].state # "unused"
  /\ IF port = Null
     THEN /\ calls' = ThrowNotConnected(calls, c)
          /\ UNCHANGED <<messageHandlers, posted>>
     ELSE LET registered ==
                [calls EXCEPT ![c] =
                   [@ EXCEPT !.state = "pending", !.requestId = id,
                             !.timer = NATIVE_MESSAGE_TIMEOUT]]
          IN IF throws
             THEN /\ messageHandlers' = [messageHandlers EXCEPT ![id] = Null]
                  /\ calls' = Settle(registered, c, "rejected", "send",
                                     "postMessage failed", Null)
                  /\ UNCHANGED posted
             ELSE /\ messageHandlers' = [messageHandlers EXCEPT ![id] = c]
                  /\ calls' = registered
                  /\ posted' = [posted EXCEPT ![c] = port]
  /\ event' = "other"
  /\ UNCHANGED <<port, livePorts, reconnectTimers, disconnectRequested>>
  /\ UNCHANGED hostVars
  /\ UNCHANGED syncVars

\* the onMessage listener of a live port runs on the host's response to the
\* message of call c (the host may answer late, and the pipe may hand the
\* same response over again)
Response(c, success, content) ==
  /\ posted[c] \in livePorts
  /\ event' = IF Handler(calls[c].requestId) = Null THEN "drop" ELSE "other"
  /\ HandleNativeResponse(ResponseTo(c, success, content))
  /\ UNCHANGED <<port, livePorts, posted, reconnectTimers,
                 disconnectRequested>>
  /\ UNCHANGED hostVars
  /\ UNCHANGED syncVars

\* the onMessage listener runs on a response tagged "unknown"
UnknownArrives ==
  /\ livePorts # {}
  /\ event' = "drop"
  /\ HandleNativeResponse(UnknownResponse)
  /\ UNCHANGED <<port, livePorts, posted, reconnectTimers,
                 disconnectRequested>>
  /\ UNCHANGED hostVars
  /\ UNCHANGED syncVars

\* the setTimeout callback of call c runs
TimeoutFires(c) ==
  /\ calls[c].timer # Null
  /\ LET id == calls[c].requestId
         disarmed == [calls EXCEPT ![c].timer = Null]
     IN IF messageHandlers[id] # Null
        THEN /\ messageHandlers' = [messageHandlers EXCEPT ![id] = Null]
             /\ calls' = Settle(disarmed, c, "rejected", "timeout",
                                "Native messaging timeout", Null)
        ELSE /\ calls' = disarmed
             /\ UNCHANGED messageHandlers
  /\ event' = "other"
  /\ UNCHANGED <<port, livePorts, posted, reconnectTimers,
                 disconnectRequested>>
  /\ UNCHANGED hostVars
  /\ UNCHANGED syncVars

\* the onDisconnect listener, rejecting every pending call and emptying the
\* pending table
PortDisconnectsFailsPending(p) ==
  /\ p \in livePorts
  /\ port' = Null
  /\ livePorts' = livePorts \ {p}
  /\ posted' = [c \in Calls |-> IF posted[c] = p THEN Null ELSE posted[c]]
  /\ reconnectTimers' = Append(reconnectTimers, ReconnectDelay)
  /\ event' = "other"
  /\ messageHandlers' = [id \in ReqIds |-> Null]
  /\ calls' = [c \in Calls |->
                 IF calls[c].state = "pending"
                 THEN [calls[c] EXCEPT !.state = "rejected",
                                       !.by = "disconnect",
                                       !.settled = @ + 1]
                 ELSE calls[c]]
  /\ UNCHANGED disconnectRequested
  /\ UNCHANGED hostVars
  /\ UNCHANGED syncVars

\* the onDisconnect listener without `this.port = null`
PortDisconnectsKeepsPort(p) ==
  /\ p \in livePorts
  /\ livePorts' = livePorts \ {p}
  /\ posted' = [c \in Calls |-> IF posted[c] = p THEN Null ELSE posted[c]]
  /\ reconnectTimers' = Append(reconnectTimers, ReconnectDelay)
  /\ event' = "other"
  /\ UNCHANGED <<port, messageHandlers, calls, disconnectRequested>>
  /\ UNCHANGED hostVars
  /\ UNCHANGED syncVars

\* the onDisconnect listener of live port p runs: the channel failed or the
\* host exited
PortDisconnects(p) ==
  /\ p \in livePorts
  /\ port' = Null
  /\ livePorts' = livePorts \ {p}
  /\ posted' = [c \in Calls |-> IF posted[c] = p THEN Null ELSE posted[c]]
  /\ reconnectTimers' = Append(reconnectTimers, ReconnectDelay)
  /\ event' = "other"
  /\ UNCHANGED <<messageHandlers, calls, disconnectRequested>>
  /\ UNCHANGED hostVars
  /\ UNCHANGED syncVars

\* a reconnect timer armed by onDisconnect fires: connectToNativeHost()
ReconnectTimerFires(outcome) ==
  /\ reconnectTimers # <<>>
  /\ reconnectTimers' = Tail(reconnectTimers)
  /\ ConnectToNativeHost(outcome)
  /\ event' = "other"
  /\ UNCHANGED <<messageHandlers, calls, posted, disconnectRequested>>
  /\ UNCHANGED hostVars
  /\ UNCHANGED syncVars

\* disconnect(); the port's own onDisconnect listener does not run for a
\* disconnect the client itself asked for
Disconnect ==
  /\ IF port # Null
     THEN /\ port' = Null
          /\ livePorts' = livePorts \ {port}
          /\ posted' = [c \in Calls |->
                          IF posted[c] = port THEN Null ELSE posted[c]]
     ELSE UNCHANGED <<port, livePorts, posted>>
  /\ disconnectRequested' = TRUE
  /\ event' = "other"
  /\ UNCHANGED <<messageHandlers, calls, reconnectTimers>>
  /\ UNCHANGED hostVars
  /\ UNCHANGED syncVars

C3_OwnResult ==
  \A c \in Calls :
    calls[c].by = "response" =>
      /\ calls[c].answers = c
      /\ calls[c].state = "resolved" =>
           calls[c].value \in ResponseContents(TRUE)
      /\ calls[c].state = "rejected" =>
           calls[c].value \in {"extractor failed", "Native messaging error"}

\* C4  Idempotent drop: a response whose requestId has no entry in the
\* pending table settles no caller and leaves every entry and every timer
\* as it was.
C4_IdempotentDrop ==
  [][event' = "drop" => UNCHANGED <<calls, messageHandlers>>]_vars

\* C4 witness: a response has just been dropped for a request that had
\* already timed out, while another request is pending with its entry and
\* its timer.
C4_Witness ==
  /\ event = "drop"
  /\ \E c, d \in Calls :
       /\ calls[c].by = "timeout"
       /\ calls[d].state = "pending"
       /\ calls[d].timer # Null
       /\ messageHandlers[calls[d].requestId] = d

\* C8  Timeout: when the timer of a request that is still waiting fires,
\* the request's entry is removed, that caller is rejected with 'Native
\* messaging timeout', and no other caller and no other caller's entry is
\* touched.
C8_TimeoutRejectsOnlyItsCaller ==
  [][\A c \in Calls :
       (calls[c].state = "pending" /\ TimeoutFires(c)) =>
         /\ calls'[c].state = "rejected"
         /\ calls'[c].value = "Native messaging timeout"
         /\ messageHandlers'[calls[c].requestId] = Null
         /\ \A d \in Calls \ {c} : calls'[d] = calls[d]
         /\ \A id \in ReqIds :
              messageHandlers[id] \notin {Null, c}
                => messageHandlers'[id] = messageHandlers[id]]_vars

\* C9  Reconnect loop: when the onDisconnect listener has run, the client
\* is disconnected and a reconnect attempt is armed with the 5,000 ms
\* delay; and a reconnect attempt that leaves the client disconnected,
\* with no disconnect() asked for, leaves another attempt armed.
C9_ReconnectLoopContinues ==
  [][/\ Len(reconnectTimers') > Len(reconnectTimers)
          => /\ port' = Null
             /\ reconnectTimers'[Len(reconnectTimers')] = ReconnectDelay
     /\ (Len(reconnectTimers') < Len(reconnectTimers) /\ port' = Null
         /\ ~disconnectRequested')
          => reconnectTimers' # <<>>]_vars

\* C10  Explicit disconnect: once disconnect() has been called the client
\* stays disconnected (isConnected() is false).
C10_DisconnectSuppressesReconnect ==
  disconnectRequested => port = Null

\* C17  Wrapper fallbacks: whichever of extractBookmarks,
\* getBookmarkDatabases and ping made a sendMessage call, the wrapper's
\* promise is never rejected; when the call failed it is resolved with [],
\* {} and false respectively; and ping is resolved with true only when the
\* call resolved with data whose status is 'alive'.
C17_WrapperFallbacks ==
  \A c \in Calls, wrapper \in Wrappers :
    calls[c].state # "unused" =>
      LET promise == Wrapper(wrapper, calls[c])
      IN /\ promise.state # "rejected"
         /\ calls[c].state = "rejected" =>
              promise = [state |-> "resolved",
                         value |-> WrapperDefault(wrapper)]
         /\ (wrapper = "ping" /\ promise.value = "true") =>
              (calls[c].state = "resolved" /\ calls[c].value = "alive")

\* C17 witness: one call was rejected by its timeout and another resolved
\* with the liveness record, so that ping gives false for the first and
\* true for the second.
C17_Witness ==
  \E c, d \in Calls :
    /\ calls[c].by = "timeout"
    /\ Wrapper("ping", calls[c]).value = "false"
    /\ Wrapper("extractBookmarks", calls[c]).value = "[]"
    /\ calls[d].state = "resolved"
    /\ Wrapper("ping", calls[d]).value = "true"

\* C19  Pending-entry lifecycle: an entry appears in the pending table only
\* by the sendMessage call that owns it, and it leaves the table only by
\* being removed, either by a response that carries its requestId or by the
\* timeout timer of the call that owns it; no other step removes it or puts
\* another call's closure in its place.
C19_EntryLifecycle ==
  [][\A id \in ReqIds :
       /\ (messageHandlers[id] # Null
           /\ messageHandlers'[id] # messageHandlers[id]) =>
            /\ messageHandlers'[id] = Null
            /\ \/ TimeoutFires(messageHandlers[id])
               \/ \E d \in Calls, success \in BOOLEAN :
                    \E content \in ResponseContents(success) :
                      /\ calls[d].requestId = id
                      /\ Response(d, success, content)
       /\ (messageHandlers[id] = Null /\ messageHandlers'[id] # Null) =>
            SendMessage(messageHandlers'[id], id, FALSE)]_vars

\* C20  A response cancels the timer: a call that was completed by a
\* response has no timeout timer armed any more.
C20_ResponseCancelsTimer ==
  \A c \in Calls : calls[c].by = "response" => calls[c].timer = Null

\* C21  Every request completes: no sendMessage call is left waiting with
\* nothing that can settle it; a call whose promise is pending still has
\* its timeout timer armed or its closure in the pending table (a pending
\* call with neither is never settled by any later step).
C21_NoCallerWaitsForever ==
  \A c \in Calls :
    calls[c].state = "pending" =>
      \/ calls[c].timer # Null
      \/ messageHandlers[calls[c].requestId] = c

\* C22  Unique correlation ids: a sendMessage call that registers a request
\* does so under an id that has no entry in the pending table, so that no
\* existing entry is overwritten.
C22_UniqueRequestIds ==
  [][\A c \in Calls, id \in ReqIds, throws \in BOOLEAN :
       (port # Null /\ SendMessage(c, id, throws))
         => messageHandlers[id] = Null]_vars

\* C23  Channel loss does not fail pending requests: a step of the
\* onDisconnect listener or of disconnect() leaves the pending table, every
\* caller and every timer as they were; and a call that is pending with its
\* channel lost is settled, when it is, by its own timeout.
C23_ChannelLossKeepsPending ==
  [][/\ ((\E p \in PortIds : PortDisconnects(p)) \/ Disconnect)
          => UNCHANGED <<messageHandlers, calls>>
     /\ \A c \in Calls :
          (calls[c].state = "pending" /\ posted[c] = Null
           /\ calls'[c].state # "pending")
            => (calls'[c].by = "timeout" /\ TimeoutFires(c))]_vars

\* C23 witness: a call that was pending when its channel was lost has since
\* been rejected by its timeout, and another is still pending with its
\* entry and its timer, its channel lost too.
C23_Witness ==
  \E c, d \in Calls :
    /\ port = Null
    /\ livePorts = {}
    /\ calls[c].by = "timeout"
    /\ calls[d].state = "pending"
    /\ posted[d] = Null
    /\ calls[d].timer # Null
    /\ messageHandlers[calls[d].requestId] = d

\* C25  The pending table agrees with the waiting callers: the closure of a
\* sendMessage call is in the pending table, under the call's requestId,
\* exactly while the call's promise is pending; so no entry is left for a
\* settled call and no call waits without an entry.
C25_TableAgreesWithCallers ==
  /\ \A c \in Calls :
       calls[c].state # "unused" =>
         (calls[c].state = "pending" <=> Handler(calls[c].requestId) = c)
  /\ \A id \in ReqIds :
       messageHandlers[id] # Null =>
         /\ calls[messageHandlers[id]].state = "pending"
         /\ calls[messageHandlers[id]].requestId = id

\* C26  Single channel, single retry: at most one native port is open, and
\* an open port is the one this.port refers to; at most one reconnect timer
\* is armed, and while one is armed this.port is null; and the onDisconnect
\* listener never runs for a port other than the one this.port refers to.
C26_SingleChannelSingleRetry ==
  [][/\ Cardinality(livePorts') <= 1
     /\ livePorts' \subseteq {port'}
     /\ Len(reconnectTimers') <= 1
     /\ reconnectTimers' # <<>> => port' = Null
     /\ \A p \in PortIds :
          (PortDisconnects(p) /\ port # Null) => p = port]_vars

\* C26 witness: the port a pending request went out on was lost, the
\* reconnect timer fired and opened a new port, which is the only open one.
C26_Witness ==
  /\ port # Null
  /\ livePorts = {port}
  /\ reconnectTimers = <<>>
  /\ \E c \in Calls : calls[c].state = "pending" /\ posted[c] = Null

\* C27  Send while disconnected: a sendMessage call made while this.port is
\* null is rejected, once, with 'Native messaging host not connected'; it
\* has no requestId and no timer, and the step changes no entry of the
\* pending table, no other call and nothing posted to any port.
C27_SendWhileDisconnected ==
  [][\A c \in Calls, id \in ReqIds, throws \in BOOLEAN :
       (port = Null /\ SendMessage(c, id, throws)) =>
         /\ calls'[c].state = "rejected"
         /\ calls'[c].value = "Native messaging host not connected"
         /\ calls'[c].settled = 1
         /\ calls'[c].timer = Null
         /\ calls'[c].requestId = Undefined
         /\ \A d \in Calls \ {c} : calls'[d] = calls[d]
         /\ UNCHANGED <<messageHandlers, posted, port, livePorts>>]_vars

\* C27 witness: a call was rejected for want of a connection while an
\* earlier request was pending with its entry and its timer.
C27_Witness ==
  \E c, d \in Calls :
    /\ calls[c].by = "notconnected"
    /\ calls[d].state = "pending"
    /\ calls[d].timer # Null
    /\ messageHandlers[calls[d].requestId] = d

\* C28  Send failure is rolled back: when postMessage throws, the step
\* leaves no entry under the request's id and the caller rejected, once,
\* with the thrown error, its timer still armed; and when the timer of a
\* call rejected by a send failure fires, it settles nobody and removes no
\* entry.
C28_SendFailureRolledBack ==
  [][\A c \in Calls :
       /\ \A id \in ReqIds :
            (port # Null /\ SendMessage(c, id, TRUE)) =>
              /\ messageHandlers'[id] = Null
              /\ calls'[c].state = "rejected"
              /\ calls'[c].value = "postMessage failed"
              /\ calls'[c].settled = 1
              /\ calls'[c].timer # Null
       /\ (calls[c].by = "send" /\ TimeoutFires(c)) =>
            /\ UNCHANGED messageHandlers
            /\ calls' = [calls EXCEPT ![c].timer = Null]]_vars

(***************************************************************************)
(* Sync manager (SyncManager) over the stored sync state.  A get or a set  *)
(* of the storage takes effect at one instant between its call and the     *)
(* continuation of the caller; a get hands out a copy.                     *)
(***************************************************************************)
Changes == 1..MaxChanges
\* who calls performSync: the setInterval callback of startPeriodicSync and
\* the onMessage listener on SYNC_BOOKMARKS
SyncCallers == {"timer", "message"}

\* a performSync call that is not running; `result` is how the caller's
\* last call ended
NoPerform == [pc |-> "idle", pendingChanges |-> <<>>, next |-> 1,
              result |-> "none"]

\* an addPendingChange call that has not been made yet
NoAdd == [pc |-> "idle", pendingChanges |-> <<>>]

\* the elements of a sequence
Range(seq) == {seq[i] : i \in 1..Len(seq)}

\* the rejection of a performSync call by the guard, with the guard's flag
\* cleared as the finally block does
RejectBusyClearsFlag(s) ==
  /\ performs' = [performs EXCEPT ![s].result = "Sync already in progress"]
  /\ syncInProgress' = FALSE

\* if (this.syncInProgress) throw new Error('Sync already in progress'),
\* ahead of the try
RejectBusy(s) ==
  /\ performs' = [performs EXCEPT ![s].result = "Sync already in progress"]
  /\ UNCHANGED syncInProgress

\* the end of a performSync call that got past the guard: return or throw,
\* through finally { this.syncInProgress = false }
Finally(s, result) ==
  /\ performs' = [performs EXCEPT ![s] = [NoPerform EXCEPT !.result = result]]
  /\ syncInProgress' = FALSE

\* performSync() called by s: the guard, then the call of getSyncState
PerformSync(s) ==
  /\ performs[s].pc = "idle"
  /\ IF syncInProgress
     THEN RejectBusy(s)
     ELSE /\ syncInProgress' = TRUE
          /\ performs' = [performs EXCEPT ![s] =
                            [NoPerform EXCEPT !.pc = "getSyncState"]]
  /\ UNCHANGED <<storedSyncState, adds, processed>>
  /\ UNCHANGED <<hostVars, clientVars>>

\* the awaited getSyncState of s settles: the storage failed, or it holds no
\* sync state, or s goes on with a copy of the stored pendingChanges
GetSyncStateSettles(s, fails) ==
  /\ performs[s].pc = "getSyncState"
  /\ IF fails
     THEN Finally(s, "storage error")
     ELSE IF ~storedSyncState.initialized
     THEN Finally(s, "Sync state not initialized")
     ELSE /\ performs' = [performs EXCEPT ![s] =
               [pc |-> IF storedSyncState.pendingChanges = <<>>
                       THEN "saveSyncState" ELSE "processChange",
                pendingChanges |-> storedSyncState.pendingChanges,
                next |-> 1, result |-> "none"]]
          /\ UNCHANGED syncInProgress
  /\ UNCHANGED <<storedSyncState, adds, processed>>
  /\ UNCHANGED <<hostVars, clientVars>>

\* one turn of the for loop of s: await this.processChange(change), whose
\* outcome only moves the counters `changes` and `conflicts`
ProcessChange(s) ==
  /\ performs[s].pc = "processChange"
  /\ LET run == performs[s]
     IN /\ processed' = processed \cup {run.pendingChanges[run.next]}
        /\ performs' = [performs EXCEPT ![s] =
             [run EXCEPT !.next = @ + 1,
                         !.pc = IF run.next = Len(run.pendingChanges)
                                THEN "saveSyncState" ELSE "processChange"]]
  /\ UNCHANGED <<storedSyncState, syncInProgress, adds>>
  /\ UNCHANGED <<hostVars, clientVars>>

\* the awaited saveSyncState of s settles: pendingChanges = [] is stored, or
\* the storage failed
SaveSyncStateSettles(s, fails) ==
  /\ performs[s].pc = "saveSyncState"
  /\ IF fails
     THEN /\ Finally(s, "storage error")
          /\ UNCHANGED storedSyncState
     ELSE /\ Finally(s, "success")
          /\ storedSyncState' =
               [storedSyncState EXCEPT !.pendingChanges = <<>>]
  /\ UNCHANGED <<adds, processed>>
  /\ UNCHANGED <<hostVars, clientVars>>

\* addPendingChange(x) up to its second await: getSyncState took effect, x
\* was pushed on the copy and saveSyncState was called with it
AddPendingChange(x) ==
  /\ adds[x].pc = "idle"
  /\ adds' = [adds EXCEPT ![x] =
       IF storedSyncState.initialized
       THEN [pc |-> "saveSyncState",
             pendingChanges |-> Append(storedSyncState.pendingChanges, x)]
       ELSE [pc |-> "skipped", pendingChanges |-> <<>>]]
  /\ UNCHANGED <<storedSyncState, syncInProgress, performs, processed>>
  /\ UNCHANGED <<hostVars, clientVars>>

\* the saveSyncState of addPendingChange(x) takes effect
AddPendingChangeSaves(x) ==
  /\ adds[x].pc = "saveSyncState"
  /\ storedSyncState' =
       [storedSyncState EXCEPT !.pendingChanges = adds[x].pendingChanges]
  /\ adds' = [adds EXCEPT ![x].pc = "appended"]
  /\ UNCHANGED <<syncInProgress, performs, processed>>
  /\ UNCHANGED <<hostVars, clientVars>>

\* the calls of performSync that are between their guard and their finally
Running == {s \in SyncCallers : performs[s].pc # "idle"}

\* C29: no pending sync change is lost: a change that addPendingChange has
\* appended is in the stored pendingChanges until processChange was applied to
\* it, however the calls of addPendingChange and performSync interleave.
C29_NoPendingChangeLost ==
  \A x \in Changes :
    adds[x].pc = "appended" =>
      \/ x \in Range(storedSyncState.pendingChanges)
      \/ x \in processed

\* C30: sync runs are mutually exclusive and the guard never sticks: at most
\* one performSync is running and syncInProgress is true exactly while one is,
\* so it is false again once a run has finished by success or by failure; a
\* performSync called while another runs rejects with 'Sync already in
\* progress', starts nothing, leaves the stored sync state and the flag of the
\* running call alone.
C30_MutualExclusion ==
  [][/\ Cardinality(Running') <= 1
     /\ syncInProgress' <=> (Running' # {})
     /\ \A s \in SyncCallers :
          (syncInProgress /\ PerformSync(s)) =>
            /\ performs'[s].result = "Sync already in progress"
            /\ performs'[s].pc = "idle"
            /\ \A t \in SyncCallers \ {s} : performs'[t] = performs[t]
            /\ syncInProgress'
            /\ UNCHANGED storedSyncState]_vars

\* a run that started after an earlier run had processed a change is under
\* way, and the other caller was rejected as busy
C30_Witness ==
  /\ syncInProgress
  /\ processed # {}
  /\ \E s \in SyncCallers, t \in SyncCallers :
       /\ s # t
       /\ performs[s].pc = "getSyncState"
       /\ performs[t] = [NoPerform EXCEPT !.result = "Sync already in progress"]

(***************************************************************************)
(* The two specifications: the host process fed a byte stream, and the     *)
(* client with the host as its environment.                                *)
(***************************************************************************)
\* the host after construction, with the stream its peer is going to write
InitHost ==
  /\ frames \in SeqUpTo(Payloads, MaxFrames)
  /\ input = Stream(frames)
  /\ pos = 0
  /\ messageBuffer = <<>>
  /\ messageLength = 0
  /\ expectingLength = TRUE
  /\ handed = <<>>
  /\ inflight = <<>>
  /\ stdout = <<>>
  /\ respFor = <<>>
  /\ written = <<>>
  /\ hostStatus = "running"
  \* the client takes no part: it never connected
  /\ port = Null
  /\ livePorts = {}
  /\ messageHandlers = [id \in ReqIds |-> Null]
  /\ calls = [c \in Calls |-> NoCall]
  /\ posted = [c \in Calls |-> Null]
  /\ reconnectTimers = <<>>
  /\ disconnectRequested = FALSE
  /\ event = "other"
  \* the sync manager takes no part
  /\ storedSyncState = [initialized |-> FALSE, pendingChanges |-> <<>>]
  /\ syncInProgress = FALSE
  /\ performs = [s \in SyncCallers |-> NoPerform]
  /\ adds = [x \in Changes |-> NoAdd]
  /\ processed = {}

NextHost ==
  \/ \E n \in ChunkSizes(Len(input) - pos) : Data(n)
  \/ \E i \in DOMAIN inflight, outcome \in ExtractorOutcomes :
       ExtractorSettles(i, outcome)
  \/ End

SpecHost == InitHost /\ [][NextHost]_vars

\* the client as its constructor leaves it
InitClient ==
  /\ \E outcome \in ConnectOutcomes :
       /\ port = (IF outcome = "ok" THEN 1 ELSE Null)
       /\ livePorts = (IF outcome = "ok" THEN {1} ELSE {})
  /\ messageHandlers = [id \in ReqIds |-> Null]
  /\ calls = [c \in Calls |-> NoCall]
  /\ posted = [c \in Calls |-> Null]
  /\ reconnectTimers = <<>>
  /\ disconnectRequested = FALSE
  /\ event = "other"
  \* the host takes no part: nothing is written to its stdin
  /\ frames = <<>>
  /\ input = <<>>
  /\ pos = 0
  /\ messageBuffer = <<>>
  /\ messageLength = 0
  /\ expectingLength = TRUE
  /\ handed = <<>>
  /\ inflight = <<>>
  /\ stdout = <<>>
  /\ respFor = <<>>
  /\ written = <<>>
  /\ hostStatus = "running"
  \* the sync manager takes no part
  /\ storedSyncState = [initialized |-> FALSE, pendingChanges |-> <<>>]
  /\ syncInProgress = FALSE
  /\ performs = [s \in SyncCallers |-> NoPerform]
  /\ adds = [x \in Changes |-> NoAdd]
  /\ processed = {}

NextClient ==
  \/ \E c \in Calls, id \in ReqIds, throws \in BOOLEAN :
       SendMessage(c, id, throws)
  \/ \E c \in Calls, success \in BOOLEAN :
       \E content \in ResponseContents(success) :
         Response(c, success, content)
  \/ UnknownArrives
  \/ \E c \in Calls : TimeoutFires(c)
  \/ \E p \in PortIds : PortDisconnects(p)
  \/ \E outcome \in {"ok", "throws"} : ReconnectTimerFires(outcome)
  \/ Disconnect

SpecClient == InitClient /\ [][NextClient]_vars

\* the sync manager after initialize(), which stored an empty sync state or
\* failed to
InitSync ==
  /\ \E initialized \in BOOLEAN :
       storedSyncState = [initialized |-> initialized,
                          pendingChanges |-> <<>>]
  /\ syncInProgress = FALSE
  /\ performs = [s \in SyncCallers |-> NoPerform]
  /\ adds = [x \in Changes |-> NoAdd]
  /\ processed = {}
  \* the native messaging host and its client take no part
  /\ frames = <<>>
  /\ input = <<>>
  /\ pos = 0
  /\ messageBuffer = <<>>
  /\ messageLength = 0
  /\ expectingLength = TRUE
  /\ handed = <<>>
  /\ inflight = <<>>
  /\ stdout = <<>>
  /\ respFor = <<>>
  /\ written = <<>>
  /\ hostStatus = "running"
  /\ port = Null
  /\ livePorts = {}
  /\ messageHandlers = [id \in ReqIds |-> Null]
  /\ calls = [c \in Calls |-> NoCall]
  /\ posted = [c \in Calls |-> Null]
  /\ reconnectTimers = <<>>
  /\ disconnectRequested = FALSE
  /\ event = "other"

NextSync ==
  \/ \E s \in SyncCallers : PerformSync(s)
  \/ \E s \in SyncCallers, fails \in BOOLEAN : GetSyncStateSettles(s, fails)
  \/ \E s \in SyncCallers : ProcessChange(s)
  \/ \E s \in SyncCallers, fails \in BOOLEAN : SaveSyncStateSettles(s, fails)
  \/ \E x \in Changes : AddPendingChange(x)
  \/ \E x \in Changes : AddPendingChangeSaves(x)

SpecSync == InitSync /\ [][NextSync]_vars

====
